---- MODULE Spec2Model ----
(***************************************************************************)
(* Metadata extraction of the polaris audio-library server                 *)
(* (src/src/app/index/metadata.rs).  read(path) detects the audio format   *)
(* from the extension, runs the reader of that format and turns a reader   *)
(* failure into one log entry and an absent result.  The last part models  *)
(* the byte-range responses of src/src/serve.rs.                           *)
(*                                                                         *)
(* Text is a sequence of one-character strings, so that case folding and   *)
(* number parsing are computed character by character.  Option<T> is a     *)
(* sequence of length 0 (None) or 1 (Some).                                *)
(***************************************************************************)
EXTENDS Integers, Sequences, FiniteSets, TLC

VARIABLES
    fs,       \* the files under test: path -> decoded content (never written)
    calls,    \* the read calls made so far: [path, ret, completed]
    log,      \* the entries written by error!(): [path, cause]
    opened,   \* the paths a reader opened, in order
    aborted,  \* TRUE once a panic has unwound out of read
    ape_exact, \* whether the ape crate compares item keys exactly (fixed for a run)
    served,   \* the last range request served and its response (None before it)
    overflow_checks \* whether the build panics on integer overflow (fixed for a run)

vars == <<fs, calls, log, opened, aborted, ape_exact, served, overflow_checks>>

\* ------------------------------------------------------------------ bounds

MaxCalls == 2
MaxLen == 3

\* -------------------------------------------------------------------- text

None == <<>>
Some(x) == <<x>>
IsSome(o) == Len(o) = 1
Unwrap(o) == o[1]

LowerLetters ==
    <<"a","b","c","d","e","f","g","h","i","j","k","l","m",
      "n","o","p","q","r","s","t","u","v","w","x","y","z">>
UpperLetters ==
    <<"A","B","C","D","E","F","G","H","I","J","K","L","M",
      "N","O","P","Q","R","S","T","U","V","W","X","Y","Z">>
Digits == <<"0","1","2","3","4","5","6","7","8","9">>

IndexOf(seq, c) ==
    IF \E i \in 1..Len(seq) : seq[i] = c
    THEN CHOOSE i \in 1..Len(seq) : seq[i] = c
    ELSE 0

\* the lower-case letter of each of A-Z
AsciiLower ==
    LET upper == {UpperLetters[i] : i \in 1..Len(UpperLetters)}
    IN  [c \in upper |-> LowerLetters[IndexOf(UpperLetters, c)]]

\* u8::to_ascii_lowercase: only A-Z change.
to_ascii_lowercase(c) == IF c \in DOMAIN AsciiLower THEN AsciiLower[c] ELSE c

\* str::eq_ignore_ascii_case, as the match_ignore_case! arms compare key and literal.
eq_ignore_ascii_case(a, b) ==
    /\ Len(a) = Len(b)
    /\ \A i \in 1..Len(a) : to_ascii_lowercase(a[i]) = to_ascii_lowercase(b[i])

\* char::to_digit(10)
DigitOf == [c \in {Digits[i] : i \in 1..Len(Digits)} |-> IndexOf(Digits, c) - 1]
IsAsciiDigit(c) == c \in DOMAIN DigitOf
DigitValue(c) == DigitOf[c]

\* A u32 (and the low 36 or 64 bits of a wider unsigned value) is kept as two
\* limbs, value = hi * 2^16 + lo, since the checker's integers end at 2^31 - 1.
W16 == 65536
U32(n) == [hi |-> n \div W16, lo |-> n % W16]

\* checked_mul(10) then checked_add(d) on a u32: None on overflow
mul10_add(v, d) ==
    LET lo2 == v.lo * 10 + d
        hi2 == v.hi * 10 + (lo2 \div W16)
    IN  IF hi2 >= W16 THEN None ELSE Some([hi |-> hi2, lo |-> lo2 % W16])

RECURSIVE accumulate_u32(_, _)
\* the digit loop of u32::from_str_radix: Some(value), or None on a character
\* that is no ASCII digit or on overflow
accumulate_u32(s, acc) ==
    IF s = <<>> THEN Some(acc)
    ELSE IF ~IsAsciiDigit(Head(s)) THEN None
    ELSE LET next == mul10_add(acc, DigitValue(Head(s))) IN
         IF IsSome(next) THEN accumulate_u32(Tail(s), Unwrap(next)) ELSE None

RECURSIVE leading_ascii_digits(_)
leading_ascii_digits(s) ==
    IF s = <<>> \/ ~IsAsciiDigit(Head(s)) THEN <<>>
    ELSE <<Head(s)>> \o leading_ascii_digits(Tail(s))

\* (mutant) the leading digits are parsed and the rest of the text is ignored
parse_u32_prefix(s) ==
    IF leading_ascii_digits(s) = <<>> THEN None
    ELSE accumulate_u32(leading_ascii_digits(s), U32(0))

\* str::parse::<u32>(): an optional '+', then one or more ASCII digits, in range
parse_u32(s) ==
    LET body == IF s # <<>> /\ Head(s) = "+" THEN Tail(s) ELSE s
    IN  IF body = <<>> THEN None ELSE accumulate_u32(body, U32(0))

I32MaxHi == 32767

RECURSIVE accumulate_i32(_, _, _)
\* the digit loop of i32::from_str_radix on the magnitude: checked_mul(10) then
\* checked_add(d) (checked_sub(d) for a negative number)
accumulate_i32(s, acc, neg) ==
    IF s = <<>> THEN Some(IF neg THEN (0 - acc.hi) * W16 - acc.lo ELSE acc.hi * W16 + acc.lo)
    ELSE IF ~IsAsciiDigit(Head(s)) THEN None
    ELSE LET lo2 == acc.lo * 10 + DigitValue(Head(s))
             hi2 == acc.hi * 10 + (lo2 \div W16)
             next == [hi |-> hi2, lo |-> lo2 % W16]
             fits == \/ hi2 <= I32MaxHi
                     \/ neg /\ hi2 = I32MaxHi + 1 /\ next.lo = 0
         IN  IF fits THEN accumulate_i32(Tail(s), next, neg) ELSE None

\* str::parse::<i32>(): an optional '+' or '-', then one or more ASCII digits, in range
parse_i32(s) ==
    LET neg  == s # <<>> /\ Head(s) = "-"
        body == IF s # <<>> /\ Head(s) \in {"+", "-"} THEN Tail(s) ELSE s
    IN  IF body = <<>> THEN None ELSE accumulate_i32(body, U32(0), neg)

\* ------------------------------------------------------------ SongMetadata

\* SongMetadata::default()
DefaultMetadata ==
    [disc_number |-> None, track_number |-> None, title |-> None,
     duration |-> None, artists |-> <<>>, album_artists |-> <<>>,
     album |-> None, year |-> None, has_artwork |-> FALSE,
     lyricists |-> <<>>, composers |-> <<>>, genres |-> <<>>, labels |-> <<>>]

Ok(d) == [kind |-> "Ok", md |-> d]
Err(e) == [kind |-> "Err", cause |-> e]
Panic == [kind |-> "Panic"]

\* ------------------------------------------------------------ key literals

K_TITLE == <<"T","I","T","L","E">>
K_ALBUM == <<"A","L","B","U","M">>
K_ARTIST == <<"A","R","T","I","S","T">>
K_ALBUMARTIST == <<"A","L","B","U","M","A","R","T","I","S","T">>
K_TRACKNUMBER == <<"T","R","A","C","K","N","U","M","B","E","R">>
K_DISCNUMBER == <<"D","I","S","C","N","U","M","B","E","R">>
K_DATE == <<"D","A","T","E">>
K_LYRICIST == <<"L","Y","R","I","C","I","S","T">>
K_COMPOSER == <<"C","O","M","P","O","S","E","R">>
K_GENRE == <<"G","E","N","R","E">>
K_PUBLISHER == <<"P","U","B","L","I","S","H","E","R">>

\* ------------------------------------------------- comment-list readers

\* one iteration of read_vorbis's loop: the first matching arm runs
vorbis_entry(md, key, value) ==
    IF eq_ignore_ascii_case(K_TITLE, key) THEN [md EXCEPT !.title = Some(value)]
    ELSE IF eq_ignore_ascii_case(K_ALBUM, key) THEN [md EXCEPT !.album = Some(value)]
    ELSE IF eq_ignore_ascii_case(K_ARTIST, key)
        THEN [md EXCEPT !.artists = Append(@, value)]
    ELSE IF eq_ignore_ascii_case(K_ALBUMARTIST, key)
        THEN [md EXCEPT !.album_artists = Append(@, value)]
    ELSE IF eq_ignore_ascii_case(K_TRACKNUMBER, key)
        THEN [md EXCEPT !.track_number = parse_u32(value)]
    ELSE IF eq_ignore_ascii_case(K_DISCNUMBER, key)
        THEN [md EXCEPT !.disc_number = parse_u32(value)]
    ELSE IF eq_ignore_ascii_case(K_DATE, key) THEN [md EXCEPT !.year = parse_i32(value)]
    ELSE IF eq_ignore_ascii_case(K_LYRICIST, key)
        THEN [md EXCEPT !.lyricists = Append(@, value)]
    ELSE IF eq_ignore_ascii_case(K_COMPOSER, key)
        THEN [md EXCEPT !.composers = Append(@, value)]
    ELSE IF eq_ignore_ascii_case(K_GENRE, key) THEN [md EXCEPT !.genres = Append(@, value)]
    ELSE IF eq_ignore_ascii_case(K_PUBLISHER, key)
        THEN [md EXCEPT !.labels = Append(@, value)]
    ELSE md

RECURSIVE vorbis_loop_dedup(_, _)
\* (mutant) an entry equal to the one before it is skipped
vorbis_loop_dedup(md, list) ==
    IF list = <<>> THEN md
    ELSE IF Len(list) >= 2 /\ list[1] = list[2] THEN vorbis_loop_dedup(md, Tail(list))
    ELSE vorbis_loop_dedup(vorbis_entry(md, Head(list)[1], Head(list)[2]), Tail(list))

RECURSIVE vorbis_loop_first_wins(_, _)
\* (mutant) the list is walked from its end, so the first occurrence is applied last
vorbis_loop_first_wins(md, list) ==
    IF list = <<>> THEN md
    ELSE LET last == list[Len(list)] IN
         vorbis_loop_first_wins(vorbis_entry(md, last[1], last[2]),
                                SubSeq(list, 1, Len(list) - 1))

RECURSIVE vorbis_loop_keeps_parsed(_, _)
\* (mutant) an entry that does not parse leaves the number parsed before it
vorbis_loop_keeps_parsed(md, list) ==
    IF list = <<>> THEN md
    ELSE LET e == vorbis_entry(md, Head(list)[1], Head(list)[2])
             kept == [e EXCEPT !.track_number = IF @ = None THEN md.track_number ELSE @,
                               !.disc_number = IF @ = None THEN md.disc_number ELSE @,
                               !.year = IF @ = None THEN md.year ELSE @]
         IN  vorbis_loop_keeps_parsed(kept, Tail(list))

RECURSIVE vorbis_loop(_, _)
vorbis_loop(md, list) ==
    IF list = <<>> THEN md
    ELSE vorbis_loop(vorbis_entry(md, Head(list)[1], Head(list)[2]), Tail(list))

read_vorbis(c) ==
    IF c.decode = "io" THEN Err("Io")
    ELSE IF c.decode # "ok" THEN Err("Vorbis")
    ELSE Ok(vorbis_loop(DefaultMetadata, c.data.comments))

\* one iteration of read_opus's loop
opus_entry(md, key, value) ==
    IF eq_ignore_ascii_case(K_TITLE, key) THEN [md EXCEPT !.title = Some(value)]
    ELSE IF eq_ignore_ascii_case(K_ALBUM, key) THEN [md EXCEPT !.album = Some(value)]
    ELSE IF eq_ignore_ascii_case(K_ARTIST, key)
        THEN [md EXCEPT !.artists = Append(@, value)]
    ELSE IF eq_ignore_ascii_case(K_ALBUMARTIST, key)
        THEN [md EXCEPT !.album_artists = Append(@, value)]
    ELSE IF eq_ignore_ascii_case(K_TRACKNUMBER, key)
        THEN [md EXCEPT !.track_number = parse_u32(value)]
    ELSE IF eq_ignore_ascii_case(K_DISCNUMBER, key)
        THEN [md EXCEPT !.disc_number = parse_u32(value)]
    ELSE IF eq_ignore_ascii_case(K_DATE, key) THEN [md EXCEPT !.year = parse_i32(value)]
    ELSE IF eq_ignore_ascii_case(K_LYRICIST, key)
        THEN [md EXCEPT !.lyricists = Append(@, value)]
    ELSE IF eq_ignore_ascii_case(K_COMPOSER, key)
        THEN [md EXCEPT !.composers = Append(@, value)]
    ELSE IF eq_ignore_ascii_case(K_GENRE, key) THEN [md EXCEPT !.genres = Append(@, value)]
    ELSE IF eq_ignore_ascii_case(K_PUBLISHER, key)
        THEN [md EXCEPT !.labels = Append(@, value)]
    ELSE md

RECURSIVE opus_loop(_, _)
opus_loop(md, list) ==
    IF list = <<>> THEN md
    ELSE opus_loop(opus_entry(md, Head(list)[1], Head(list)[2]), Tail(list))

read_opus(c) ==
    IF c.decode # "ok" THEN Err("Opus")
    ELSE Ok(opus_loop(DefaultMetadata, c.data.comments))

\* -------------------------------------------------------- frame-tag reader

\* ID3Ext::get_text_values: the frame's text values, or empty when the frame is
\* absent or carries no text (frame is an Option of the value sequence)
get_text_values(frame) == IF IsSome(frame) THEN Unwrap(frame) ELSE <<>>

\* (mutant) the later source wins when it is present
or_else_prefers_later(a, b) == IF IsSome(b) THEN b ELSE a

\* Option::or_else
or_else(a, b) == IF IsSome(a) THEN a ELSE b

\* (mutant) the first picture is not counted
pictures_present_from_second(count) == count > 1

\* tag.pictures().count() > 0
pictures_present(count) == count > 0

\* (mutant) a partial tag carried by the parser's error is dropped
read_id3_strict(c) ==
    IF c.decode # "ok" THEN Err("Id3")
    ELSE
        LET tag == c.data IN
        Ok([disc_number |-> tag.disc,
            track_number |-> tag.track,
            title |-> tag.title,
            duration |-> tag.duration,
            artists |-> IF IsSome(tag.TPE1) THEN Unwrap(tag.TPE1) ELSE <<>>,
            album_artists |-> IF IsSome(tag.TPE2) THEN Unwrap(tag.TPE2) ELSE <<>>,
            album |-> tag.album,
            year |-> IF IsSome(tag.year) THEN tag.year
                     ELSE IF IsSome(tag.date_released) THEN tag.date_released
                     ELSE IF IsSome(tag.original_date_released)
                          THEN tag.original_date_released
                     ELSE tag.date_recorded,
            has_artwork |-> tag.pictures > 0,
            lyricists |-> IF IsSome(tag.TEXT) THEN Unwrap(tag.TEXT) ELSE <<>>,
            composers |-> IF IsSome(tag.TCOM) THEN Unwrap(tag.TCOM) ELSE <<>>,
            genres |-> IF IsSome(tag.TCON) THEN Unwrap(tag.TCON) ELSE <<>>,
            labels |-> IF IsSome(tag.TPUB) THEN Unwrap(tag.TPUB) ELSE <<>>])

read_id3(c) ==
    IF c.decode \notin {"ok", "partial"} THEN Err("Id3")
    ELSE
        LET tag == c.data IN
        Ok([disc_number |-> tag.disc,
            track_number |-> tag.track,
            title |-> tag.title,
            duration |-> tag.duration,
            artists |-> get_text_values(tag.TPE1),
            album_artists |-> get_text_values(tag.TPE2),
            album |-> tag.album,
            year |-> or_else(tag.year,
                     or_else(tag.date_released,
                     or_else(tag.original_date_released, tag.date_recorded))),
            has_artwork |-> pictures_present(tag.pictures),
            lyricists |-> get_text_values(tag.TEXT),
            composers |-> get_text_values(tag.TCOM),
            genres |-> get_text_values(tag.TCON),
            labels |-> get_text_values(tag.TPUB)])

\* `as u32` of a wider unsigned value: the low 32 bits
as_u32(v) == [hi |-> v.hi % W16, lo |-> v.lo]

\* Duration::as_secs() as u32: the whole seconds, the sub-second part dropped
as_secs_u32(d) == as_u32(d.secs)

\* (mutant) the duration of the frame tag is kept
read_mp3_keeps_tag_duration(c) == read_id3(c)

\* (mutant) when the scan fails the duration of the frame tag is kept
read_mp3_falls_back_to_tag(c) ==
    IF c.decode \notin {"ok", "partial"} THEN Err("Id3")
    ELSE IF IsSome(c.scan)
         THEN Ok([read_id3(c).md EXCEPT !.duration = Some(as_secs_u32(Unwrap(c.scan)))])
         ELSE read_id3(c)

read_mp3(c) ==
    LET r == read_id3(c) IN
    IF r.kind # "Ok" THEN r
    ELSE Ok([r.md EXCEPT !.duration =
                IF IsSome(c.scan) THEN Some(as_secs_u32(Unwrap(c.scan))) ELSE None])

\* --------------------------------------------------------- item-tag reader

A_Artist == <<"A","r","t","i","s","t">>
A_Album == <<"A","l","b","u","m">>
A_AlbumArtist == <<"A","l","b","u","m"," ","a","r","t","i","s","t">>
A_Title == <<"T","i","t","l","e">>
A_Year == <<"Y","e","a","r">>
A_Disc == <<"D","i","s","c">>
A_Track == <<"T","r","a","c","k">>

\* The key comparison of ape::Tag::item / ape::Tag::items.  The ape crate is not
\* part of the repository: both an exact comparison and one that ignores ASCII
\* case are modelled, the choice being fixed for a run by ape_exact.
ape_key_matches(exact, item_key, key) ==
    IF exact THEN item_key = key ELSE eq_ignore_ascii_case(item_key, key)

\* tag.items(key): every item with the key, in tag order
tag_items(exact, items, key) ==
    SelectSeq(items, LAMBDA i : ape_key_matches(exact, i.key, key))

\* tag.item(key): the first item with the key
tag_item(exact, items, key) ==
    LET m == tag_items(exact, items, key) IN IF m = <<>> THEN None ELSE Some(m[1])

\* ape_ext::read_string
read_string(item) == IF item.kind = "Text" THEN Some(item.text) ELSE None

\* (mutant) only the first item is read, as tag.item(key) would give it
read_strings_first_only(items) ==
    IF items = <<>> THEN <<>>
    ELSE IF IsSome(read_string(Head(items))) THEN <<Unwrap(read_string(Head(items)))>>
    ELSE <<>>

RECURSIVE read_strings(_)
\* ape_ext::read_strings: filter_map of read_string
read_strings(items) ==
    IF items = <<>> THEN <<>>
    ELSE LET r == read_string(Head(items)) IN
         IF IsSome(r) THEN <<Unwrap(r)>> \o read_strings(Tail(items))
         ELSE read_strings(Tail(items))

\* ape_ext::read_i32
read_i32(item) == IF item.kind = "Text" THEN parse_i32(item.text) ELSE None

\* regex \d is Unicode-aware: it also matches decimal digits outside ASCII,
\* here the one character "u0663" (ARABIC-INDIC DIGIT THREE)
IsRegexDigit(c) == IsAsciiDigit(c) \/ c = "u0663"

RECURSIVE LeadingDigits(_)
\* the match of ^\d+ (empty: no match)
LeadingDigits(s) ==
    IF s = <<>> \/ ~IsRegexDigit(Head(s)) THEN <<>>
    ELSE <<Head(s)>> \o LeadingDigits(Tail(s))

\* ape_ext::read_x_of_y
read_x_of_y(item) ==
    IF item.kind # "Text" THEN None
    ELSE LET m == LeadingDigits(item.text) IN
         IF m = <<>> THEN None ELSE parse_u32(m)

read_ape(exact, c) ==
    IF c.decode # "ok" THEN Err("Ape")
    ELSE
        LET items == c.data.items
            album == tag_item(exact, items, A_Album)
            title == tag_item(exact, items, A_Title)
            year == tag_item(exact, items, A_Year)
            disc == tag_item(exact, items, A_Disc)
            track == tag_item(exact, items, A_Track)
        IN
        Ok([artists |-> read_strings(tag_items(exact, items, A_Artist)),
            album |-> IF IsSome(album) THEN read_string(Unwrap(album)) ELSE None,
            album_artists |-> read_strings(tag_items(exact, items, A_AlbumArtist)),
            title |-> IF IsSome(title) THEN read_string(Unwrap(title)) ELSE None,
            year |-> IF IsSome(year) THEN read_i32(Unwrap(year)) ELSE None,
            disc_number |-> IF IsSome(disc) THEN read_x_of_y(Unwrap(disc)) ELSE None,
            track_number |-> IF IsSome(track) THEN read_x_of_y(Unwrap(track)) ELSE None,
            lyricists |-> read_strings(tag_items(exact, items, K_LYRICIST)),
            composers |-> read_strings(tag_items(exact, items, K_COMPOSER)),
            genres |-> read_strings(tag_items(exact, items, K_GENRE)),
            labels |-> read_strings(tag_items(exact, items, K_PUBLISHER)),
            duration |-> None,
            has_artwork |-> FALSE])

\* --------------------------------------------------- block-container reader

\* VorbisComment::get: the values stored under exactly this key
vorbis_get(comments, key) ==
    IF key \in DOMAIN comments THEN Some(comments[key]) ELSE None

\* |o: Option<&Vec<String>>| o.cloned().unwrap_or_default()
multivalue(o) == IF IsSome(o) THEN Unwrap(o) ELSE <<>>

\* VorbisComment::track: the first TRACKNUMBER value, parsed, if there is one
vorbis_track(comments) ==
    LET t == vorbis_get(comments, K_TRACKNUMBER) IN
    IF IsSome(t) /\ Unwrap(t) # <<>> THEN parse_u32(Unwrap(t)[1]) ELSE None

\* the places where read_flac can panic: d[0] / v[0] on an empty value list,
\* and the division by the sample rate
flac_panics(tag) ==
    LET vorbis == Unwrap(tag.vorbis) IN
    \/ \E k \in {K_DISCNUMBER, K_DATE, K_ALBUM, K_TITLE} :
            k \in DOMAIN vorbis /\ vorbis[k] = <<>>
    \/ IsSome(tag.streaminfo) /\ Unwrap(tag.streaminfo).sample_rate = 0

\* u32 / u32 for a divisor below 2^23: long division over hi and the two bytes of lo
div_u32(v, r) ==
    LET q1 == v.hi \div r
        t2 == (v.hi % r) * 256 + (v.lo \div 256)
        q2 == t2 \div r
        t3 == (t2 % r) * 256 + (v.lo % 256)
        q3 == t3 \div r
        q  == q2 * 256 + q3
    IN  [hi |-> q1 + (q \div W16), lo |-> q % W16]

\* s.total_samples as u32 / s.sample_rate: the cast applies to total_samples
flac_duration(s) == div_u32(as_u32(s.total_samples), s.sample_rate)

read_flac(c) ==
    IF c.decode # "ok" THEN Err("Metaflac")
    ELSE IF ~IsSome(c.data.vorbis) THEN Err("VorbisCommentNotFoundInFlacFile")
    ELSE IF flac_panics(c.data) THEN Panic
    ELSE
        LET tag == c.data
            vorbis == Unwrap(tag.vorbis)
            first(o) == IF IsSome(o) THEN Some(Unwrap(o)[1]) ELSE None
            disc == vorbis_get(vorbis, K_DISCNUMBER)
            date == vorbis_get(vorbis, K_DATE)
        IN
        Ok([artists |-> multivalue(vorbis_get(vorbis, K_ARTIST)),
            album_artists |-> multivalue(vorbis_get(vorbis, K_ALBUMARTIST)),
            album |-> first(vorbis_get(vorbis, K_ALBUM)),
            title |-> first(vorbis_get(vorbis, K_TITLE)),
            duration |-> IF IsSome(tag.streaminfo)
                         THEN Some(flac_duration(Unwrap(tag.streaminfo))) ELSE None,
            disc_number |-> IF IsSome(disc) THEN parse_u32(Unwrap(disc)[1]) ELSE None,
            track_number |-> vorbis_track(vorbis),
            year |-> IF IsSome(date) THEN parse_i32(Unwrap(date)[1]) ELSE None,
            has_artwork |-> pictures_present(tag.pictures),
            lyricists |-> multivalue(vorbis_get(vorbis, K_LYRICIST)),
            composers |-> multivalue(vorbis_get(vorbis, K_COMPOSER)),
            genres |-> multivalue(vorbis_get(vorbis, K_GENRE)),
            labels |-> multivalue(vorbis_get(vorbis, K_PUBLISHER))])

\* --------------------------------------------------------- atom-tag reader

read_mp4(c) ==
    IF c.decode # "ok" THEN Err("Mp4aMeta")
    ELSE
        LET tag == c.data IN
        Ok([artists |-> tag.artists,
            album_artists |-> tag.album_artists,
            album |-> tag.album,
            title |-> tag.title,
            duration |-> IF IsSome(tag.duration)
                         THEN Some(as_secs_u32(Unwrap(tag.duration))) ELSE None,
            disc_number |-> IF IsSome(tag.disc_number)
                            THEN Some(U32(Unwrap(tag.disc_number))) ELSE None,
            track_number |-> IF IsSome(tag.track_number)
                             THEN Some(U32(Unwrap(tag.track_number))) ELSE None,
            year |-> IF IsSome(tag.year) THEN parse_i32(Unwrap(tag.year)) ELSE None,
            has_artwork |-> tag.artwork > 0,
            lyricists |-> tag.lyricists,
            composers |-> tag.composers,
            genres |-> tag.genres,
            labels |-> tag.labels])

\* -------------------------------------------------------------- dispatcher

\* utils::get_audio_format: the format of the path's extension
get_audio_format(path) ==
    CASE path.ext \in {"aif", "aiff"} -> Some("AIFF")
      [] path.ext = "flac" -> Some("FLAC")
      [] path.ext = "mp3" -> Some("MP3")
      [] path.ext = "ogg" -> Some("OGG")
      [] path.ext = "opus" -> Some("OPUS")
      [] path.ext = "wav" -> Some("WAVE")
      [] path.ext = "ape" -> Some("APE")
      [] path.ext = "mpc" -> Some("MPC")
      [] path.ext = "m4a" -> Some("MP4")
      [] path.ext = "m4b" -> Some("M4B")
      [] OTHER -> None

\* the first match of read: the reader of the format, run on the file
run_reader(format, exact, c) ==
    CASE format = "AIFF" -> read_id3(c)
      [] format = "FLAC" -> read_flac(c)
      [] format = "MP3" -> read_mp3(c)
      [] format = "OGG" -> read_vorbis(c)
      [] format = "OPUS" -> read_opus(c)
      [] format = "WAVE" -> read_id3(c)
      [] format \in {"APE", "MPC"} -> read_ape(exact, c)
      [] format \in {"MP4", "M4B"} -> read_mp4(c)

\* (mutant) the reader's error is unwrapped instead of matched
read_outcome_unwrap(path, data) ==
    CASE data.kind = "Ok" -> [ret |-> Some(data.md), logs |-> <<>>, completed |-> TRUE]
      [] OTHER -> [ret |-> None, logs |-> <<>>, completed |-> FALSE]

\* what read does with the reader's result: [ret, logs, completed]
read_outcome(path, data) ==
    CASE data.kind = "Ok" -> [ret |-> Some(data.md), logs |-> <<>>, completed |-> TRUE]
      [] data.kind = "Err" ->
            [ret |-> None, logs |-> <<[path |-> path, cause |-> data.cause]>>,
             completed |-> TRUE]
      [] data.kind = "Panic" -> [ret |-> None, logs |-> <<>>, completed |-> FALSE]

\* ------------------------------------------------------------- the fixtures

V_TITLE == <<"T","E","S","T"," ","T","I","T","L","E">>
V_ARTIST == <<"T","E","S","T"," ","A","R","T","I","S","T">>
V_ALBUMARTIST == <<"T","E","S","T"," ","A","L","B","U","M"," ","A","R","T","I","S","T">>
V_ALBUM == <<"T","E","S","T"," ","A","L","B","U","M">>
V_LYRICIST == <<"T","E","S","T"," ","L","Y","R","I","C","I","S","T">>
V_COMPOSER == <<"T","E","S","T"," ","C","O","M","P","O","S","E","R">>
V_GENRE == <<"T","E","S","T"," ","G","E","N","R","E">>
V_LABEL == <<"T","E","S","T"," ","L","A","B","E","L">>
V_3 == <<"3">>
V_1 == <<"1">>
V_2016 == <<"2","0","1","6">>

\* std::time::Duration: whole seconds (u64) and the millisecond part
Duration(secs, ms) == [secs |-> U32(secs), ms |-> ms]

Path(dir, ext) == [dir |-> dir, name |-> "sample", ext |-> ext]
File(decode, data) == [decode |-> decode, data |-> data]

\* an ID3 tag with the reference values and n pictures
Id3Sample(n) ==
    [disc |-> Some(U32(3)), track |-> Some(U32(1)), title |-> Some(V_TITLE), duration |-> None,
     TPE1 |-> Some(<<V_ARTIST>>), TPE2 |-> Some(<<V_ALBUMARTIST>>),
     album |-> Some(V_ALBUM), year |-> Some(2016), date_released |-> None,
     original_date_released |-> None, date_recorded |-> None, pictures |-> n,
     TEXT |-> Some(<<V_LYRICIST>>), TCOM |-> Some(<<V_COMPOSER>>),
     TCON |-> Some(<<V_GENRE>>), TPUB |-> Some(<<V_LABEL>>)]

Id3File(decode, n) == [decode |-> decode, data |-> Id3Sample(n), scan |-> Some(Duration(0, 417))]

\* a comment list with the reference values, keys as taggers write them
CommentSample ==
    <<  <<K_TITLE, V_TITLE>>, <<K_ARTIST, V_ARTIST>>, <<K_ALBUMARTIST, V_ALBUMARTIST>>,
        <<K_ALBUM, V_ALBUM>>, <<K_DISCNUMBER, V_3>>, <<K_TRACKNUMBER, V_1>>,
        <<K_DATE, V_2016>>, <<K_LYRICIST, V_LYRICIST>>, <<K_COMPOSER, V_COMPOSER>>,
        <<K_GENRE, V_GENRE>>, <<K_PUBLISHER, V_LABEL>> >>

CommentFile(decode, n) == File(decode, [comments |-> CommentSample, pictures |-> n])

Text(key, text) == [key |-> key, kind |-> "Text", text |-> text]
Binary(key) == [key |-> key, kind |-> "Binary", text |-> <<>>]

\* the items of the reference APE tag, keyed as the reader asks for them
ApeSample(n) ==
    <<Text(A_Title, V_TITLE), Text(A_Artist, V_ARTIST),
      Text(A_AlbumArtist, V_ALBUMARTIST), Text(A_Album, V_ALBUM),
      Text(A_Disc, V_3), Text(A_Track, V_1), Text(A_Year, V_2016),
      Text(K_LYRICIST, V_LYRICIST), Text(K_COMPOSER, V_COMPOSER),
      Text(K_GENRE, V_GENRE), Text(K_PUBLISHER, V_LABEL)>>
    \o [i \in 1..n |-> Binary(<<"C","o","v","e","r"," ","A","r","t"," ","(","F","r","o","n","t",")">>)]

ApeFile(decode, n) == File(decode, [items |-> ApeSample(n)])

FlacComments ==
    (K_TITLE :> <<V_TITLE>>) @@ (K_ARTIST :> <<V_ARTIST>>)
    @@ (K_ALBUMARTIST :> <<V_ALBUMARTIST>>) @@ (K_ALBUM :> <<V_ALBUM>>)
    @@ (K_DISCNUMBER :> <<V_3>>) @@ (K_TRACKNUMBER :> <<V_1>>) @@ (K_DATE :> <<V_2016>>)
    @@ (K_LYRICIST :> <<V_LYRICIST>>) @@ (K_COMPOSER :> <<V_COMPOSER>>)
    @@ (K_GENRE :> <<V_GENRE>>) @@ (K_PUBLISHER :> <<V_LABEL>>)

\* a comment block without entries
NoComments == [k \in {} |-> <<>>]

StreamInfo(n, r) == [total_samples |-> U32(n), sample_rate |-> r]

FlacFile(decode, vorbis, streaminfo, n) ==
    File(decode, [vorbis |-> vorbis, streaminfo |-> streaminfo, pictures |-> n])

Mp4File(decode, n) ==
    File(decode,
         [artists |-> <<V_ARTIST>>, album_artists |-> <<V_ALBUMARTIST>>,
          album |-> Some(V_ALBUM), title |-> Some(V_TITLE), duration |-> Some(Duration(0, 417)),
          disc_number |-> Some(3), track_number |-> Some(1), year |-> Some(V_2016),
          artwork |-> n, lyricists |-> <<V_LYRICIST>>, composers |-> <<V_COMPOSER>>,
          genres |-> <<V_GENRE>>, labels |-> <<V_LABEL>>])

\* the file of a format in a fixture directory: n pictures, decoded as `decode`
Fixture(ext, decode, n) ==
    CASE ext \in {"aif", "wav", "mp3"} -> Id3File(decode, n)
      [] ext \in {"ogg", "opus"} -> CommentFile(decode, n)
      [] ext \in {"ape", "mpc"} -> ApeFile(decode, n)
      [] ext = "flac" ->
            FlacFile(decode, Some(FlacComments), Some(StreamInfo(18000, 44100)), n)
      [] ext \in {"m4a", "m4b"} -> Mp4File(decode, n)
      [] OTHER -> File("ok", <<>>)

SupportedExts == {"aif", "wav", "mp3", "ogg", "opus", "flac", "ape", "m4a"}
OtherExts == {"jpg", "txt", ""}

\* the directories of the scanned tree and how their files decode
ScanPaths ==
    {Path(d, e) : d \in {"formats", "artwork", "corrupt"},
                  e \in SupportedExts \cup {"mpc", "m4b"}}
    \cup {Path("formats", e) : e \in OtherExts}
    \cup {Path(d, "mp3") : d \in {"partial"}}
    \cup {Path(d, "ogg") : d \in {"unreadable", "blanktitle"}}
    \cup {Path(d, "flac") : d \in {"nocomment", "emptycomment", "emptycomment0hz",
                                    "zerorate"}}

ScanFS ==
    [p \in ScanPaths |->
        CASE p.dir = "formats" -> Fixture(p.ext, "ok", 0)
          [] p.dir = "artwork" -> Fixture(p.ext, "ok", 1)
          [] p.dir = "corrupt" -> Fixture(p.ext, "malformed", 0)
          [] p.dir = "partial" -> Fixture(p.ext, "partial", 1)
          [] p.dir = "unreadable" -> Fixture(p.ext, "io", 0)
          [] p.dir = "blanktitle" ->
                File("ok", [comments |-> << <<K_TITLE, <<>> >>, <<K_ALBUM, V_ALBUM>> >>,
                            pictures |-> 0])
          [] p.dir = "nocomment" -> FlacFile("ok", None, Some(StreamInfo(18000, 44100)), 0)
          [] p.dir = "emptycomment" -> FlacFile("ok", Some(NoComments), None, 0)
          [] p.dir = "emptycomment0hz" ->
                FlacFile("ok", Some(NoComments), Some(StreamInfo(18000, 0)), 0)
          [] p.dir = "zerorate" ->
                FlacFile("ok", Some(FlacComments), Some(StreamInfo(18000, 0)), 0)]

\* the decoded content of the file at a path: a file under test, or a fixture
file_at(path) == IF path \in DOMAIN fs THEN fs[path] ELSE ScanFS[path]

\* (mutant) an unrecognized extension is opened and reported like a reader failure
read_reports_unrecognized(path) ==
    /\ ~aborted
    /\ LET format == get_audio_format(path)
           out == IF IsSome(format)
                  THEN read_outcome(path, run_reader(Unwrap(format), ape_exact,
                                                     file_at(path)))
                  ELSE read_outcome(path, Err("Unsupported"))
       IN  /\ calls' = Append(calls, [path |-> path, ret |-> out.ret,
                                      completed |-> out.completed])
           /\ log' = log \o out.logs
           /\ opened' = Append(opened, path)
           /\ aborted' = ~out.completed
    /\ UNCHANGED <<fs, ape_exact, served, overflow_checks>>

\* pub fn read(path): one call of the crawler
read(path) ==
    /\ ~aborted
    /\ LET format == get_audio_format(path) IN
       IF ~IsSome(format)
       THEN /\ calls' = Append(calls, [path |-> path, ret |-> None, completed |-> TRUE])
            /\ UNCHANGED <<log, opened, aborted>>
       ELSE LET out == read_outcome(path, run_reader(Unwrap(format), ape_exact, file_at(path)))
            IN  /\ calls' = Append(calls, [path |-> path, ret |-> out.ret,
                                           completed |-> out.completed])
                /\ log' = log \o out.logs
                /\ opened' = Append(opened, path)
                /\ aborted' = ~out.completed
    /\ UNCHANGED <<fs, ape_exact, served, overflow_checks>>

\* ------------------------------------------------------------ specification

\* the crawler reads files of the tree, one call at a time
Init ==
    /\ fs = <<>>
    /\ calls = <<>>
    /\ log = <<>>
    /\ opened = <<>>
    /\ aborted = FALSE
    /\ served = <<>>
    /\ overflow_checks = FALSE
    /\ ape_exact \in BOOLEAN

Next == \E p \in ScanPaths : Len(calls) < MaxCalls /\ read(p)

Spec == Init /\ [][Next]_vars

\* --------------------------------------- comment lists drawn for the readers

\* the entries the drawn comment lists are made of: keys in several spellings,
\* repeated keys and values, numbers that parse and numbers that do not
CommentEntries ==
    { <<K_TITLE, <<"a">>>>, <<<<"T","i","t","l","e">>, <<"b">>>>, <<K_ALBUM, <<"a">>>>,
      <<K_ARTIST, <<"a">>>>, <<<<"a","r","t","i","s","t">>, <<"b">>>>, <<<<"G","e","n","r","e">>, <<"a">>>>,
      <<K_TRACKNUMBER, <<"7">>>>, <<<<"t","r","a","c","k","n","u","m","b","e","r">>, <<"x">>>>,
      <<K_DATE, <<"2","0","1","6">>>>, <<K_DISCNUMBER, <<"1","/","2">>>>, <<<<"C","O","M","M","E","N","T">>, <<"a">>>> }

CommentLists == UNION {[1..n -> CommentEntries] : n \in 0..MaxLen}

CommentPaths == {Path("drawn", "ogg"), Path("drawn", "opus")}

\* one comment list, stored in an Ogg/Vorbis file and in an Opus file
InitComments ==
    /\ fs \in {[p \in CommentPaths |-> File("ok", [comments |-> l, pictures |-> 0])] :
                    l \in CommentLists}
    /\ calls = <<>>
    /\ log = <<>>
    /\ opened = <<>>
    /\ aborted = FALSE
    /\ served = <<>>
    /\ overflow_checks = FALSE
    /\ ape_exact = FALSE

\* the crawler reads the files under test
NextFiles == \E p \in DOMAIN fs : Len(calls) < MaxCalls /\ read(p)

SpecComments == InitComments /\ [][NextFiles]_vars

\* ------------------------------------------- item tags drawn for the reader

\* the items the drawn tags are made of: keys as the reader spells them and in
\* other spellings, repeated keys, text and binary values
ApeItems ==
    { Text(A_Artist, <<"a">>), Text(<<"A","R","T","I","S","T">>, <<"b">>), Binary(A_Artist),
      Text(<<"L","y","r","i","c","i","s","t">>, <<"a">>), Text(K_LYRICIST, <<"b">>),
      Text(<<"C","o","m","p","o","s","e","r">>, <<"a">>), Text(K_PUBLISHER, <<"a">>), Text(<<"G","e","n","r","e">>, <<"b">>) }

ApeTags == UNION {[1..n -> ApeItems] : n \in 0..MaxLen}

ApePaths == {Path("drawn", "ape"), Path("drawn", "mpc")}

\* one item tag, stored in an APE file and in a Musepack file
InitApe ==
    /\ fs \in {[p \in ApePaths |-> File("ok", [items |-> l])] : l \in ApeTags}
    /\ calls = <<>>
    /\ log = <<>>
    /\ opened = <<>>
    /\ aborted = FALSE
    /\ served = <<>>
    /\ overflow_checks = FALSE
    /\ ape_exact \in BOOLEAN

SpecApe == InitApe /\ [][NextFiles]_vars

\* ------------------------------- disc and track items drawn for the reader

\* the Disc and Track items the drawn tags are made of: "x/y" and "x" forms,
\* trailing text, a number too large for a u32, a decimal digit outside ASCII
\* after an ASCII digit, text that starts with no digit, and a binary value
XofYItems ==
    { Text(A_Track, <<"7","/","9">>), Text(A_Track, <<"1","u0663","/","2">>),
      Text(A_Track, <<"9","9","9","9","9","9","9","9","9","9","9">>), Binary(A_Track),
      Text(A_Disc, <<"1","2","x">>), Text(A_Disc, <<"x","1">>), Text(A_Disc, <<"0","3">>) }

XofYTags == UNION {[1..n -> XofYItems] : n \in 0..MaxLen}

\* one item tag, stored in an APE file and in a Musepack file
InitXofY ==
    /\ fs \in {[p \in ApePaths |-> File("ok", [items |-> l])] : l \in XofYTags}
    /\ calls = <<>>
    /\ log = <<>>
    /\ opened = <<>>
    /\ aborted = FALSE
    /\ served = <<>>
    /\ overflow_checks = FALSE
    /\ ape_exact \in BOOLEAN

SpecXofY == InitXofY /\ [][NextFiles]_vars

\* ------------------------------- stream information drawn for the reader

\* total sample counts of a STREAMINFO block (a 36-bit field), as limbs: 0,
\* 18000, 2^32 - 1, 2^32, 2^32 + 88200 and 2^36 - 1
SampleCounts ==
    { [hi |-> 0, lo |-> 0], [hi |-> 0, lo |-> 18000], [hi |-> 65535, lo |-> 65535],
      [hi |-> 65536, lo |-> 0], [hi |-> 65537, lo |-> 22664],
      [hi |-> 1048575, lo |-> 65535] }

SampleRates == {8000, 44100, 48000}

StreamInfos ==
    {None} \cup {Some([total_samples |-> n, sample_rate |-> r]) :
                    n \in SampleCounts, r \in SampleRates}

FlacPaths == {Path("drawn", "flac")}

\* one FLAC file: with or without comments and pictures, with or without a
\* STREAMINFO block
InitFlac ==
    /\ fs \in {[p \in FlacPaths |-> FlacFile("ok", Some(v), si, n)] :
                    v \in {FlacComments, NoComments}, si \in StreamInfos, n \in {0, 1}}
    /\ calls = <<>>
    /\ log = <<>>
    /\ opened = <<>>
    /\ aborted = FALSE
    /\ served = <<>>
    /\ overflow_checks = FALSE
    /\ ape_exact = FALSE

SpecFlac == InitFlac /\ [][NextFiles]_vars

\* ------------------------------------------ frame tags drawn for the reader

\* the tags the drawn files carry: every combination of the four sources of the
\* year, with and without a duration of the tag's own
Id3Tags ==
    {[Id3Sample(0) EXCEPT !.year = y, !.date_released = a,
                          !.original_date_released = b, !.date_recorded = r,
                          !.duration = d] :
        y \in {None, Some(2016)}, a \in {None, Some(2017)}, b \in {None, Some(2018)},
        r \in {None, Some(2019)}, d \in {None, Some(U32(5))}}

\* id3::Tag::read_from_path: Ok(tag), Err with a partial tag, Err without one
Id3Decodes == {"ok", "partial", "malformed"}

\* mp3_duration::from_path: Err, or the length of the stream
Mp3Scans == {None, Some(Duration(0, 417)), Some(Duration(3, 900))}

Id3Paths == {Path("drawn", "aif"), Path("drawn", "wav"), Path("drawn", "mp3")}

\* one tagged audio stream, stored as AIFF, WAVE and MP3 file
InitId3 ==
    /\ fs \in {[p \in Id3Paths |-> [decode |-> d, data |-> t, scan |-> s]] :
                    d \in Id3Decodes, t \in Id3Tags, s \in Mp3Scans}
    /\ calls = <<>>
    /\ log = <<>>
    /\ opened = <<>>
    /\ aborted = FALSE
    /\ served = <<>>
    /\ overflow_checks = FALSE
    /\ ape_exact = FALSE

SpecId3 == InitId3 /\ [][NextFiles]_vars

\* ----------------------------------------------------- byte-range responses

\* A u64 is kept as four 16-bit limbs, most significant first.
U64(n) == <<0, 0, n \div W16, n % W16>>
U64Max == <<W16 - 1, W16 - 1, W16 - 1, W16 - 1>>

u64_lt(a, b) == \E i \in 1..4 : a[i] < b[i] /\ \A j \in 1..(i - 1) : a[j] = b[j]
u64_le(a, b) == a = b \/ u64_lt(a, b)

\* cmp::min
u64_min(a, b) == IF u64_le(a, b) THEN a ELSE b

\* a - b modulo 2^64, limb by limb with borrow
wrapping_sub(a, b) ==
    LET d4 == a[4] - b[4]
        d3 == a[3] - b[3] - (IF d4 < 0 THEN 1 ELSE 0)
        d2 == a[2] - b[2] - (IF d3 < 0 THEN 1 ELSE 0)
        d1 == a[1] - b[1] - (IF d2 < 0 THEN 1 ELSE 0)
    IN  <<(d1 + W16) % W16, (d2 + W16) % W16, (d3 + W16) % W16, (d4 + W16) % W16>>

\* a - b leaves the range of u64
sub_overflows(a, b) == u64_lt(a, b)

\* a + b modulo 2^64, limb by limb with carry
wrapping_add(a, b) ==
    LET s4 == a[4] + b[4]
        s3 == a[3] + b[3] + (s4 \div W16)
        s2 == a[2] + b[2] + (s3 \div W16)
        s1 == a[1] + b[1] + (s2 \div W16)
    IN  <<s1 % W16, s2 % W16, s3 % W16, s4 % W16>>

\* a + b leaves the range of u64
add_overflows(a, b) == u64_lt(wrapping_add(a, b), a)

\* enum PartialFileRange
AllFrom(from) == [kind |-> "AllFrom", from |-> from]
FromTo(from, to) == [kind |-> "FromTo", from |-> from, to |-> to]
Last(last) == [kind |-> "Last", last |-> last]

\* impl From<ByteRangeSpec> for PartialFileRange: variant by variant
from_byte_range(b) ==
    CASE b.kind = "AllFrom" -> AllFrom(b.from)
      [] b.kind = "FromTo" -> FromTo(b.from, b.to)
      [] b.kind = "Last" -> Last(b.last)

\* impl From<Vec<ByteRangeSpec>> for PartialFileRange, and the same match in
\* respond_to: the first range of the header, or everything
from_vec(v) == IF v = <<>> THEN AllFrom(U64(0)) ELSE from_byte_range(v[1])

\* truncate_range, with the subtractions taken modulo 2^64
truncate_range(range, file_length) ==
    IF ~IsSome(file_length) THEN None
    ELSE
        LET len == Unwrap(file_length) IN
        CASE range.kind = "FromTo" ->
                IF u64_le(range.from, range.to) /\ u64_lt(range.from, len)
                THEN Some(<<range.from, u64_min(range.to, wrapping_sub(len, U64(1)))>>)
                ELSE None
          [] range.kind = "AllFrom" ->
                IF u64_lt(range.from, len)
                THEN Some(<<range.from, wrapping_sub(len, U64(1))>>)
                ELSE None
          [] range.kind = "Last" ->
                IF u64_lt(range.last, len)
                THEN Some(<<wrapping_sub(len, range.last), wrapping_sub(len, U64(1))>>)
                ELSE Some(<<U64(0), wrapping_sub(len, U64(1))>>)

\* a subtraction evaluated by truncate_range leaves the range of u64
truncate_range_overflows(range, file_length) ==
    /\ IsSome(file_length)
    /\ LET len == Unwrap(file_length) IN
       CASE range.kind = "FromTo" ->
                u64_le(range.from, range.to) /\ u64_lt(range.from, len)
                    /\ sub_overflows(len, U64(1))
         [] range.kind = "AllFrom" ->
                u64_lt(range.from, len) /\ sub_overflows(len, U64(1))
         [] range.kind = "Last" ->
                IF u64_lt(range.last, len)
                THEN sub_overflows(len, range.last) \/ sub_overflows(len, U64(1))
                ELSE sub_overflows(len, U64(1))

\* to - from + 1 modulo 2^64
content_len(from, to) == wrapping_add(wrapping_sub(to, from), U64(1))
content_len_overflows(from, to) ==
    sub_overflows(to, from) \/ add_overflows(wrapping_sub(to, from), U64(1))

\* a panic unwinds out of the handler
Panicked == [kind |-> "Panic"]

\* the response of the handler: status, Content-Length and Content-Range
\* headers, and the part of the file the body sends (None: the file as it is
\* or no body)
Response(status, content_length, content_range, body) ==
    [kind |-> "Response", status |-> status, content_length |-> content_length,
     content_range |-> content_range, body |-> body]

\* what the handler leaves: the request, the result of truncate_range (None
\* also when it was not reached or panicked) and the response
Served(op, range, file_length, truncated, response) ==
    [op |-> op, range |-> range, file_length |-> file_length,
     truncated |-> truncated, response |-> response]

\* file.metadata().ok().map(|m| m.len())
file_length_of(path) == fs[path].len

\* impl Modifier<Response> for PartialFile: modify, on the file at path with the
\* ranges of the request header
modify(path, v) ==
    LET range == from_vec(v)
        file_length == file_length_of(path)
        truncated == truncate_range(range, file_length)
    IN
    /\ served' = Some(
            IF overflow_checks /\ truncate_range_overflows(range, file_length)
            THEN Served("modify", range, file_length, None, Panicked)
            ELSE IF IsSome(truncated)
            THEN LET from == Unwrap(truncated)[1]
                     to == Unwrap(truncated)[2]
                 IN  IF overflow_checks /\ content_len_overflows(from, to)
                     THEN Served("modify", range, file_length, truncated, Panicked)
                     ELSE Served("modify", range, file_length, truncated,
                            Response("PartialContent", Some(content_len(from, to)),
                                Some([range |-> truncated, instance_length |-> file_length]),
                                Some([offset |-> from, len |-> content_len(from, to)])))
            ELSE Served("modify", range, file_length, truncated,
                    Response("RangeNotSatisfiable", None,
                        IF IsSome(file_length)
                        THEN Some([range |-> None, instance_length |-> file_length])
                        ELSE None,
                        None)))
    /\ UNCHANGED <<fs, calls, log, opened, aborted, ape_exact, overflow_checks>>

\* RangeResponder::ignore_range: the whole file, with the status changed
ignore_range == Response("RangeNotSatisfiable", None, None, None)

\* File::seek(SeekFrom::Start(from)): offsets above i64::MAX are rejected
seek_fails(from) == from[1] >= W16 \div 2

\* impl Responder for RangeResponder<File>: respond_to, on the file at path
\* with this Range header
respond_to(path, header) ==
    LET range == from_vec(header.ranges)
        file_length == file_length_of(path)
        truncated == truncate_range(range, file_length)
    IN
    /\ served' = Some(
            IF header.kind = "Absent"
            THEN Served("respond_to", None, None, None, Response("Ok", None, None, None))
            ELSE IF header.kind # "Bytes"
            THEN Served("respond_to", None, None, None, ignore_range)
            ELSE IF overflow_checks /\ truncate_range_overflows(range, file_length)
            THEN Served("respond_to", range, file_length, None, Panicked)
            ELSE IF IsSome(truncated)
            THEN LET from == Unwrap(truncated)[1]
                     to == Unwrap(truncated)[2]
                 IN  IF overflow_checks /\ content_len_overflows(from, to)
                     THEN Served("respond_to", range, file_length, truncated, Panicked)
                     ELSE IF seek_fails(from)
                     THEN Served("respond_to", range, file_length, truncated,
                            Response("InternalServerError", None, None, None))
                     ELSE Served("respond_to", range, file_length, truncated,
                            Response("PartialContent", Some(content_len(from, to)),
                                Some([range |-> truncated, instance_length |-> file_length]),
                                Some([offset |-> from, len |-> content_len(from, to)])))
            ELSE Served("respond_to", range, file_length, truncated, ignore_range))
    /\ UNCHANGED <<fs, calls, log, opened, aborted, ape_exact, overflow_checks>>

\* the offsets and lengths drawn for the requests: around a file of 5 bytes,
\* and the largest u64
Offsets == {U64(0), U64(1), U64(4), U64(5), U64(6), U64Max}

ByteRangeSpecs ==
    {AllFrom(a) : a \in Offsets} \cup {FromTo(a, b) : a, b \in Offsets}
    \cup {Last(a) : a \in Offsets}

\* the ranges of a Range header: none, one, or two (the second is not looked at)
RangeVecs ==
    {<<>>} \cup {<<r>> : r \in ByteRangeSpecs}
    \cup {<<r, AllFrom(U64(0))>> : r \in ByteRangeSpecs}

\* the Range header of a request: absent, not a list of byte ranges, or one
RangeHeaders ==
    {[kind |-> "Absent", ranges |-> <<>>], [kind |-> "Other", ranges |-> <<>>]}
    \cup {[kind |-> "Bytes", ranges |-> v] : v \in RangeVecs}

\* the length of the file served: unknown (metadata fails), 0, 1, 5 bytes, 2^32 bytes
FileLengths == {None, Some(U64(0)), Some(U64(1)), Some(U64(5)), Some(<<0, 1, 0, 0>>)}

ServePaths == {Path("drawn", "mp3")}

\* one file of a drawn length, served by a debug or a release build
InitServe ==
    /\ fs \in {[p \in ServePaths |-> [len |-> l]] : l \in FileLengths}
    /\ calls = <<>>
    /\ log = <<>>
    /\ opened = <<>>
    /\ aborted = FALSE
    /\ ape_exact = FALSE
    /\ served = <<>>
    /\ overflow_checks \in BOOLEAN

\* requests are served one after the other; the handlers keep no state
NextServe ==
    \/ \E p \in DOMAIN fs : \E v \in RangeVecs : modify(p, v)
    \/ \E p \in DOMAIN fs : \E h \in RangeHeaders : respond_to(p, h)

SpecServe == InitServe /\ [][NextServe]_vars

\* ------------------------------------------------- vocabulary of the claims

RecognizedExts ==
    {"aif", "aiff", "flac", "mp3", "ogg", "opus", "wav", "ape", "mpc", "m4a", "m4b"}
Recognized(p) == p.ext \in RecognizedExts

\* the file cannot be opened, does not parse, or is a FLAC file without comment block
ReaderFails(p) ==
    /\ Recognized(p)
    /\ \/ file_at(p).decode \in {"io", "malformed"}
       \/ p.ext = "flac" /\ file_at(p).decode = "ok" /\ file_at(p).data.vorbis = None

\* the error a failing reader reports, by format and kind of failure
FailureCause(p) ==
    CASE p.ext \in {"aif", "aiff", "wav", "mp3"} -> "Id3"
      [] p.ext = "ogg" -> IF file_at(p).decode = "io" THEN "Io" ELSE "Vorbis"
      [] p.ext = "opus" -> "Opus"
      [] p.ext \in {"ape", "mpc"} -> "Ape"
      [] p.ext \in {"m4a", "m4b"} -> "Mp4aMeta"
      [] p.ext = "flac" -> IF file_at(p).decode = "ok"
                           THEN "VorbisCommentNotFoundInFlacFile" ELSE "Metaflac"

FailedCalls == SelectSeq(calls, LAMBDA c : ReaderFails(c.path))

\* what a first read of the file returns
FirstRead(p) ==
    IF Recognized(p)
    THEN read_outcome(p, run_reader(Unwrap(get_audio_format(p)), ape_exact, file_at(p))).ret
    ELSE None

\* C1: in a batch of read calls, a call on a recognized-format file whose reader
\* fails returns None without aborting, adds exactly one log entry, which carries
\* the path and the cause, and the calls after it return what they return on
\* their own.
C1_FailedReadIsLoggedOnceAndScanGoesOn ==
    /\ \A i \in 1..Len(calls) :
            ReaderFails(calls[i].path) => calls[i].ret = None /\ calls[i].completed
    /\ Len(log) = Len(FailedCalls)
    /\ \A k \in 1..Len(log) :
            /\ k <= Len(FailedCalls)
            /\ log[k] = [path |-> FailedCalls[k].path,
                         cause |-> FailureCause(FailedCalls[k].path)]
    /\ (calls # <<>> /\ ReaderFails(calls[Len(calls)].path)) => ~aborted
    /\ \A i, j \in 1..Len(calls) :
            i < j /\ ReaderFails(calls[i].path) =>
                /\ calls[j].ret = FirstRead(calls[j].path)
                /\ calls[i].path = calls[j].path => calls[j].ret = calls[i].ret

\* a failed read followed by a read that returns metadata
C1_Witness ==
    /\ Len(calls) = 2
    /\ ReaderFails(calls[1].path)
    /\ IsSome(calls[2].ret)
    /\ Len(log) = 1

\* C2: a read of a path with an unrecognized extension returns None, writes no
\* log entry and opens no file.
C2_UnrecognizedIsSilent ==
    \A i \in 1..Len(calls) :
        ~Recognized(calls[i].path) =>
            /\ calls[i].ret = None
            /\ calls[i].completed
            /\ \A k \in 1..Len(log) : log[k].path # calls[i].path
            /\ \A k \in 1..Len(opened) : opened[k] # calls[i].path

C2_Witness ==
    \E i \in 1..Len(calls) : ~Recognized(calls[i].path) /\ Len(opened) = Len(calls) - 1

\* C3: every read call completes, returning Some(metadata) or None: no reader
\* panics.
C3_ReadNeverPanics ==
    /\ ~aborted
    /\ \A i \in 1..Len(calls) : calls[i].completed

\* the literal the fixtures of every format are compared with (duration apart)
SampleTags ==
    [disc_number |-> Some(U32(3)), track_number |-> Some(U32(1)),
     title |-> Some(V_TITLE), artists |-> <<V_ARTIST>>,
     album_artists |-> <<V_ALBUMARTIST>>, album |-> Some(V_ALBUM),
     duration |-> None, year |-> Some(2016), has_artwork |-> FALSE,
     lyricists |-> <<V_LYRICIST>>, composers |-> <<V_COMPOSER>>,
     genres |-> <<V_GENRE>>, labels |-> <<V_LABEL>>]

\* C4: the reference file of each of the eight formats reads as Some(metadata)
\* with exactly the reference values; duration is unset for AIFF, WAVE, OGG,
\* OPUS and APE and set for FLAC, MP3 and MP4, and the results are otherwise equal.
C4_FixturesReadAsSampleTags ==
    \A i \in 1..Len(calls) :
        LET p == calls[i].path IN
        (p.dir = "formats" /\ p.ext \in SupportedExts) =>
            /\ IsSome(calls[i].ret)
            /\ [Unwrap(calls[i].ret) EXCEPT !.duration = None] = SampleTags
            /\ IsSome(Unwrap(calls[i].ret).duration) <=> p.ext \in {"flac", "mp3", "m4a"}

C4_Witness ==
    /\ Len(calls) = 2
    /\ calls[1].path = Path("formats", "ape")
    /\ calls[2].path = Path("formats", "mp3")
    /\ IsSome(calls[1].ret) /\ IsSome(calls[2].ret)
    /\ Unwrap(calls[2].ret).duration = Some(U32(0))

\* the number of pictures embedded in the file
Pictures(p) ==
    CASE p.ext \in {"aif", "aiff", "wav", "mp3", "flac", "ogg", "opus"} ->
            file_at(p).data.pictures
      [] p.ext \in {"m4a", "m4b"} -> file_at(p).data.artwork
      [] p.ext \in {"ape", "mpc"} ->
            Len(SelectSeq(file_at(p).data.items, LAMBDA i : i.kind = "Binary"))

\* C5: in a returned value has_artwork is true exactly when the file embeds a
\* picture for the frame-tag, block-container and atom-tag formats, and false for
\* the item-tag and comment-list formats whatever the file embeds.
C5_ArtworkDetection ==
    \A i \in 1..Len(calls) :
        LET p == calls[i].path IN
        IsSome(calls[i].ret) =>
            IF p.ext \in {"ape", "mpc", "ogg", "opus"}
            THEN ~Unwrap(calls[i].ret).has_artwork
            ELSE Unwrap(calls[i].ret).has_artwork <=> Pictures(p) > 0

C5_Witness ==
    /\ Len(calls) = 2
    /\ calls[1].path = Path("artwork", "ape") /\ IsSome(calls[1].ret)
    /\ Pictures(calls[1].path) > 0
    /\ calls[2].path = Path("artwork", "flac") /\ IsSome(calls[2].ret)
    /\ Unwrap(calls[2].ret).has_artwork

\* the log entries written for a path
LogEntriesFor(p) == SelectSeq(log, LAMBDA e : e.path = p)
CallsOn(p) == SelectSeq(calls, LAMBDA c : c.path = p)

\* C6: a FLAC file that parses but has no comment block makes the reader fail
\* with the missing-comment error (None, one log entry per read); one whose
\* comment block is empty reads as Some(metadata) with title, album, track, disc
\* and year unset and every sequence field empty.
C6_MissingVersusEmptyCommentBlock ==
    \A i \in 1..Len(calls) :
        LET p == calls[i].path
            f == file_at(p)
        IN
        (p.ext = "flac" /\ f.decode = "ok") =>
            /\ f.data.vorbis = None =>
                    /\ calls[i].ret = None /\ calls[i].completed
                    /\ Len(LogEntriesFor(p)) = Len(CallsOn(p))
                    /\ \A k \in 1..Len(log) : log[k].path = p =>
                            log[k].cause = "VorbisCommentNotFoundInFlacFile"
            /\ (f.data.vorbis # None /\ DOMAIN Unwrap(f.data.vorbis) = {}) =>
                    /\ calls[i].completed
                    /\ IsSome(calls[i].ret)
                    /\ LET md == Unwrap(calls[i].ret) IN
                        /\ md.title = None /\ md.album = None /\ md.track_number = None
                        /\ md.disc_number = None /\ md.year = None
                        /\ md.artists = <<>> /\ md.album_artists = <<>>
                        /\ md.lyricists = <<>> /\ md.composers = <<>>
                        /\ md.genres = <<>> /\ md.labels = <<>>

\* ----------------------------------------------- comment-list readers

\* the small letter of each capital letter
SmallOf == [i \in 1..26 |-> <<UpperLetters[i], LowerLetters[i]>>]
SmallLetter(c) ==
    IF \E i \in 1..26 : SmallOf[i][1] = c
    THEN SmallOf[CHOOSE i \in 1..26 : SmallOf[i][1] = c][2]
    ELSE c
FoldTable == [c \in {UpperLetters[i] : i \in 1..26} |-> SmallLetter(c)]

\* key is the canonical (upper-case) key K in some spelling: each character is
\* the letter of K or its lower-case form
MatchesKey(key, K) ==
    /\ Len(key) = Len(K)
    /\ \A i \in 1..Len(K) :
            key[i] = K[i] \/ (K[i] \in DOMAIN FoldTable /\ key[i] = FoldTable[K[i]])

CanonicalKeys ==
    {K_TITLE, K_ALBUM, K_ARTIST, K_ALBUMARTIST, K_TRACKNUMBER, K_DISCNUMBER, K_DATE,
     K_LYRICIST, K_COMPOSER, K_GENRE, K_PUBLISHER}

\* the values of the entries of the list whose key matches K, in list order
ValuesOf(list, K) ==
    LET m == SelectSeq(list, LAMBDA e : MatchesKey(e[1], K))
    IN  [i \in 1..Len(m) |-> m[i][2]]

\* the comment list of a file read by a comment-list reader
IsCommentCall(c) ==
    c.path.ext \in {"ogg", "opus"} /\ file_at(c.path).decode = "ok"
CommentsOf(c) == file_at(c.path).data.comments

\* C7: after a comment-list read each sequence field is the subsequence of the
\* values whose key matches the field's key in any spelling, in list order, with
\* duplicates kept.
C7_SequenceFieldsKeepOrderAndDuplicates ==
    \A i \in 1..Len(calls) :
        IsCommentCall(calls[i]) =>
            /\ IsSome(calls[i].ret)
            /\ LET md == Unwrap(calls[i].ret)
                   l == CommentsOf(calls[i])
               IN  /\ md.artists = ValuesOf(l, K_ARTIST)
                   /\ md.album_artists = ValuesOf(l, K_ALBUMARTIST)
                   /\ md.lyricists = ValuesOf(l, K_LYRICIST)
                   /\ md.composers = ValuesOf(l, K_COMPOSER)
                   /\ md.genres = ValuesOf(l, K_GENRE)
                   /\ md.labels = ValuesOf(l, K_PUBLISHER)

\* a list that repeats a value under two spellings of ARTIST, read by both readers
C7_Witness ==
    /\ Len(calls) = 2
    /\ calls[1].path.ext = "ogg" /\ calls[2].path.ext = "opus"
    /\ IsSome(calls[1].ret) /\ IsSome(calls[2].ret)
    /\ Len(CommentsOf(calls[1])) = 3
    /\ Unwrap(calls[1].ret).artists = << <<"b">>, <<"a">>, <<"b">> >>
    /\ Unwrap(calls[2].ret).artists = << <<"b">>, <<"a">>, <<"b">> >>

LastOf(seq) == IF seq = <<>> THEN None ELSE Some(seq[Len(seq)])

IsUnknownKey(key) == \A K \in CanonicalKeys : ~MatchesKey(key, K)

\* the loop of the reader of an extension
LoopOf(ext, list) ==
    IF ext = "ogg" THEN vorbis_loop(DefaultMetadata, list)
    ELSE opus_loop(DefaultMetadata, list)

\* C8: after a comment-list read title and album are the value of the last entry
\* matching TITLE and ALBUM in any spelling, unset without such an entry, and
\* the entries with unknown keys change no field.
C8_TitleAndAlbumTakeLastOccurrence ==
    \A i \in 1..Len(calls) :
        IsCommentCall(calls[i]) =>
            /\ IsSome(calls[i].ret)
            /\ LET md == Unwrap(calls[i].ret)
                   l == CommentsOf(calls[i])
               IN  /\ md.title = LastOf(ValuesOf(l, K_TITLE))
                   /\ md.album = LastOf(ValuesOf(l, K_ALBUM))
                   /\ md = LoopOf(calls[i].path.ext,
                                  SelectSeq(l, LAMBDA e : ~IsUnknownKey(e[1])))

\* two titles in different spellings around an unknown key: the last one is kept
C8_Witness ==
    /\ Len(calls) = 1
    /\ IsSome(calls[1].ret)
    /\ Len(CommentsOf(calls[1])) = 3
    /\ IsUnknownKey(CommentsOf(calls[1])[2][1])
    /\ CommentsOf(calls[1])[1] = <<K_TITLE, <<"a">> >>
    /\ Unwrap(calls[1].ret).title = Some(<<"b">>)

\* the text is no decimal number: empty, or with a character that is no digit
\* after an optional sign
NotANumber(v) ==
    LET body == IF v # <<>> /\ v[1] \in {"+", "-"} THEN Tail(v) ELSE v
    IN  body = <<>> \/ \E i \in 1..Len(body) : body[i] \notin DOMAIN DigitOf

NumericKeys == {K_TRACKNUMBER, K_DISCNUMBER, K_DATE}

\* the entries of the list that have a numeric key K and a value that is no number
BadNumberAt(l, k, K) == MatchesKey(l[k][1], K) /\ NotANumber(l[k][2])

\* the list without its k-th entry
Without(l, k) == SubSeq(l, 1, k - 1) \o SubSeq(l, k + 1, Len(l))

NumericField(md, K) ==
    CASE K = K_TRACKNUMBER -> md.track_number
      [] K = K_DISCNUMBER -> md.disc_number
      [] K = K_DATE -> md.year

\* md with the numeric field of K blanked
BlankField(md, K) ==
    CASE K = K_TRACKNUMBER -> [md EXCEPT !.track_number = None]
      [] K = K_DISCNUMBER -> [md EXCEPT !.disc_number = None]
      [] K = K_DATE -> [md EXCEPT !.year = None]

\* C9 as stated: a TRACKNUMBER, DISCNUMBER or DATE entry that is no number leaves
\* the read successful, that numeric field unset and every other field as if the
\* entry were absent.
C9_BadNumberLeavesFieldUnset ==
    \A i \in 1..Len(calls) :
        IsCommentCall(calls[i]) =>
            /\ IsSome(calls[i].ret)
            /\ LET md == Unwrap(calls[i].ret)
                   l == CommentsOf(calls[i])
               IN  \A k \in 1..Len(l) : \A K \in NumericKeys :
                        BadNumberAt(l, k, K) =>
                            /\ NumericField(md, K) = None
                            /\ BlankField(md, K) =
                                    BlankField(LoopOf(calls[i].path.ext, Without(l, k)), K)

\* the entry is the last one of the list that matches K
LastMatch(l, k, K) == \A j \in (k + 1)..Len(l) : ~MatchesKey(l[j][1], K)

\* C9 as amended: such an entry leaves the read successful and every other field
\* as if the entry were absent; the numeric field is unset when the entry is
\* the last one with its key, and as if the entry were absent when a later entry
\* has the key.
C9_BadNumberNeverFailsTheRead ==
    \A i \in 1..Len(calls) :
        IsCommentCall(calls[i]) =>
            /\ IsSome(calls[i].ret)
            /\ calls[i].completed
            /\ LET md == Unwrap(calls[i].ret)
                   l == CommentsOf(calls[i])
               IN  \A k \in 1..Len(l) : \A K \in NumericKeys :
                        BadNumberAt(l, k, K) =>
                            /\ BlankField(md, K) =
                                    BlankField(LoopOf(calls[i].path.ext, Without(l, k)), K)
                            /\ IF LastMatch(l, k, K)
                               THEN NumericField(md, K) = None
                               ELSE NumericField(md, K) =
                                    NumericField(LoopOf(calls[i].path.ext, Without(l, k)), K)

\* a title, a track number that is no number, and an artist: the track is unset
C9_Witness ==
    /\ Len(calls) = 1
    /\ IsSome(calls[1].ret)
    /\ Len(CommentsOf(calls[1])) = 3
    /\ BadNumberAt(CommentsOf(calls[1]), 2, K_TRACKNUMBER)
    /\ Unwrap(calls[1].ret).track_number = None
    /\ Unwrap(calls[1].ret).title # None
    /\ Unwrap(calls[1].ret).artists # <<>>

\* ---------------------------------------------------------- item-tag reader

IsApeCall(c) == c.path.ext \in {"ape", "mpc"} /\ file_at(c.path).decode = "ok"
ItemsOf(c) == file_at(c.path).data.items

\* the texts of the text items keyed exactly `key`, in item order
TextsKeyed(items, key) ==
    LET m == SelectSeq(items, LAMBDA i : i.kind = "Text" /\ i.key = key)
    IN  [i \in 1..Len(m) |-> m[i].text]

\* C10 as stated: the sequence fields are filled from the text items keyed
\* exactly Artist, Lyricist, Composer, Genre and Publisher, repeated keys giving
\* repeated entries in item order.
C10_ItemsKeyedInMixedCase ==
    \A i \in 1..Len(calls) :
        IsApeCall(calls[i]) =>
            /\ IsSome(calls[i].ret)
            /\ LET md == Unwrap(calls[i].ret)
                   items == ItemsOf(calls[i])
               IN  /\ md.artists = TextsKeyed(items, <<"A","r","t","i","s","t">>)
                   /\ md.lyricists = TextsKeyed(items, <<"L","y","r","i","c","i","s","t">>)
                   /\ md.composers = TextsKeyed(items, <<"C","o","m","p","o","s","e","r">>)
                   /\ md.genres = TextsKeyed(items, <<"G","e","n","r","e">>)
                   /\ md.labels = TextsKeyed(items, <<"P","u","b","l","i","s","h","e","r">>)

\* the text with A-Z replaced by a-z
Folded(s) == [i \in 1..Len(s) |-> IF s[i] \in DOMAIN FoldTable THEN FoldTable[s[i]] ELSE s[i]]

\* the texts of the text items the tag library finds for `key`, in item order:
\* the items keyed exactly so, or also those keyed so up to ASCII case
TextsFound(items, key) ==
    LET m == SelectSeq(items, LAMBDA i :
                /\ i.kind = "Text"
                /\ IF ape_exact THEN i.key = key ELSE Folded(i.key) = Folded(key))
    IN  [i \in 1..Len(m) |-> m[i].text]

\* C10 as amended: the sequence fields are filled from the text items the tag
\* library finds for Artist, Album artist, LYRICIST, COMPOSER, GENRE and
\* PUBLISHER, repeated keys giving repeated entries in item order.
C10_ItemsKeyedAsTheReaderAsks ==
    \A i \in 1..Len(calls) :
        IsApeCall(calls[i]) =>
            /\ IsSome(calls[i].ret)
            /\ LET md == Unwrap(calls[i].ret)
                   items == ItemsOf(calls[i])
               IN  /\ md.artists = TextsFound(items, <<"A","r","t","i","s","t">>)
                   /\ md.album_artists = TextsFound(items, <<"A","l","b","u","m"," ","a","r","t","i","s","t">>)
                   /\ md.lyricists = TextsFound(items, <<"L","Y","R","I","C","I","S","T">>)
                   /\ md.composers = TextsFound(items, <<"C","O","M","P","O","S","E","R">>)
                   /\ md.genres = TextsFound(items, <<"G","E","N","R","E">>)
                   /\ md.labels = TextsFound(items, <<"P","U","B","L","I","S","H","E","R">>)

\* under an exact key comparison, a tag with LYRICIST twice and Lyricist once
\* gives the two LYRICIST texts and not the Lyricist text
C10_Witness ==
    /\ ape_exact
    /\ Len(calls) = 1
    /\ IsApeCall(calls[1]) /\ IsSome(calls[1].ret)
    /\ Len(ItemsOf(calls[1])) = 3
    /\ ItemsOf(calls[1])[3].key = <<"L","y","r","i","c","i","s","t">>
    /\ Unwrap(calls[1].ret).lyricists = << <<"b">>, <<"b">> >>

\* -------------------------------------------------- absent and empty fields

\* C11: in every metadata value read returns, title and album are never Some of
\* the empty text (an entry with an empty value leaves the field unset); the
\* sequence fields are sequences, empty when the tag has no value for them.
C11_TitleAndAlbumNeverEmptyButPresent ==
    \A i \in 1..Len(calls) :
        IsSome(calls[i].ret) =>
            /\ Unwrap(calls[i].ret).title # Some(<<>>)
            /\ Unwrap(calls[i].ret).album # Some(<<>>)

\* --------------------------------------------------------- frame-tag reader

IsId3Call(c) == c.path.ext \in {"aif", "aiff", "wav", "mp3"}

\* the same file, had strict parsing of its tag succeeded
FullyParsed(f) == [f EXCEPT !.decode = "ok"]

\* what read returns for a file with this content at path p
ReadOf(p, f) == read_outcome(p, run_reader(Unwrap(get_audio_format(p)), ape_exact, f)).ret

\* C12: when strict parsing of the frame tag fails, the read succeeds exactly
\* when the parser's error carries a partial tag, and then returns what it
\* returns for the same tag fully parsed; when the error carries no partial tag
\* the reader fails with that error: read returns None and logs it.
C12_PartialTagIsUsedWhenCarried ==
    \A i \in 1..Len(calls) :
        LET c == calls[i]
            f == file_at(c.path)
        IN  (IsId3Call(c) /\ f.decode # "ok") =>
                /\ IsSome(c.ret) <=> f.decode = "partial"
                /\ f.decode = "partial" =>
                        /\ c.ret = ReadOf(c.path, FullyParsed(f))
                        /\ Unwrap(c.ret).title = f.data.title
                        /\ LogEntriesFor(c.path) = <<>>
                /\ f.decode # "partial" =>
                        /\ c.ret = None
                        /\ Len(LogEntriesFor(c.path)) = Len(CallsOn(c.path))
                        /\ \A k \in 1..Len(LogEntriesFor(c.path)) :
                                LogEntriesFor(c.path)[k].cause = "Id3"

\* a partial tag read from an AIFF file and from an MP3 file
C12_Witness ==
    /\ Len(calls) = 2
    /\ calls[1].path.ext = "aif" /\ calls[2].path.ext = "mp3"
    /\ file_at(calls[1].path).decode = "partial"
    /\ IsSome(calls[1].ret) /\ IsSome(calls[2].ret)
    /\ Unwrap(calls[1].ret).year = Some(2017)

TagReadable(f) == f.decode \in {"ok", "partial"}

\* the whole seconds of a scanned length
WholeSeconds(d) == d.secs

\* C13: for an MP3 file with a readable frame tag the duration is the whole
\* seconds of the full-stream scan when the scan succeeds and unset when it
\* fails, whatever duration the tag carries, and every other field is what the
\* plain frame-tag reader yields; for AIFF and WAVE files the duration is the
\* duration field of the tag.
C13_Mp3DurationComesFromTheScan ==
    \A i \in 1..Len(calls) :
        LET c == calls[i]
            f == file_at(c.path)
        IN  (IsId3Call(c) /\ TagReadable(f)) =>
                /\ IsSome(c.ret)
                /\ IF c.path.ext = "mp3"
                   THEN /\ Unwrap(c.ret).duration =
                                IF IsSome(f.scan) THEN Some(WholeSeconds(Unwrap(f.scan)))
                                ELSE None
                        /\ [Unwrap(c.ret) EXCEPT !.duration = None] =
                                [Unwrap(ReadOf(Path("drawn", "wav"), f)) EXCEPT !.duration = None]
                   ELSE Unwrap(c.ret).duration = f.data.duration

\* a tag that claims 5 seconds on a stream that scans as 3.9 seconds: the WAVE
\* read keeps the 5, the MP3 read returns 3
C13_Witness ==
    /\ Len(calls) = 2
    /\ calls[1].path.ext = "wav" /\ calls[2].path.ext = "mp3"
    /\ IsSome(calls[1].ret) /\ IsSome(calls[2].ret)
    /\ file_at(calls[2].path).data.duration = Some(U32(5))
    /\ file_at(calls[2].path).scan = Some(Duration(3, 900))
    /\ Unwrap(calls[1].ret).duration = Some(U32(5))
    /\ Unwrap(calls[2].ret).duration = Some(U32(3))

\* the sources of the year of a frame tag, in the order of the specification
YearSources(tag) ==
    <<tag.year, tag.date_released, tag.original_date_released, tag.date_recorded>>

\* C14: in a frame-tag read the year is the first present value among the
\* primary year frame and the years of the release date, the original release
\* date and the recording date, in this order; it is unset only when all four
\* are absent.
C14_YearIsFirstPresentSource ==
    \A i \in 1..Len(calls) :
        LET c == calls[i]
            f == file_at(c.path)
        IN  (IsId3Call(c) /\ TagReadable(f)) =>
                /\ IsSome(c.ret)
                /\ LET src == YearSources(f.data)
                       year == Unwrap(c.ret).year
                   IN  /\ year = None <=> \A k \in 1..4 : src[k] = None
                       /\ \A k \in 1..4 :
                            (src[k] # None /\ \A j \in 1..(k - 1) : src[j] = None)
                                => year = src[k]

\* no primary year, no release date, an original release date and a recording
\* date: the year of the original release date is returned
C14_Witness ==
    /\ Len(calls) = 1
    /\ IsId3Call(calls[1]) /\ IsSome(calls[1].ret)
    /\ YearSources(file_at(calls[1].path).data) = <<None, None, Some(2018), Some(2019)>>
    /\ Unwrap(calls[1].ret).year = Some(2018)

\* ------------------------------------------------- disc and track items

\* the first item of the tag with this key
FirstKeyed(items, key) ==
    LET m == SelectSeq(items, LAMBDA i : i.key = key)
    IN  IF m = <<>> THEN None ELSE Some(m[1])

RECURSIVE LeadingRun(_)
\* the maximal leading run of the digits 0-9 of a text
LeadingRun(t) ==
    IF t = <<>> \/ t[1] \notin DOMAIN DigitOf THEN <<>>
    ELSE <<t[1]>> \o LeadingRun(Tail(t))

RECURSIVE RunValue(_)
\* the number a run of at most nine digits denotes
RunValue(run) ==
    IF run = <<>> THEN 0
    ELSE RunValue(SubSeq(run, 1, Len(run) - 1)) * 10 + DigitOf[run[Len(run)]]

\* what C15 states for the item: the value of the leading run when the item is
\* text that starts with a digit and the value fits 32 bits (the runs drawn have
\* at most nine digits, or eleven), unset otherwise
XofYExpected(item) ==
    IF item.kind = "Text" /\ LeadingRun(item.text) # <<>>
    THEN IF Len(LeadingRun(item.text)) <= 9
         THEN Some(U32(RunValue(LeadingRun(item.text)))) ELSE None
    ELSE None

\* C15: in an item-tag read, disc_number and track_number are the value of the
\* maximal leading run of decimal digits of the Disc and Track item, whatever
\* follows the run, unset when the value does not fit 32 bits, and unset without
\* error when the text starts with no digit or the item is binary.
C15_LeadingDigitsAreTheValue ==
    \A i \in 1..Len(calls) :
        IsApeCall(calls[i]) =>
            /\ IsSome(calls[i].ret)
            /\ LET md == Unwrap(calls[i].ret)
                   disc == FirstKeyed(ItemsOf(calls[i]), A_Disc)
                   track == FirstKeyed(ItemsOf(calls[i]), A_Track)
               IN  /\ md.disc_number =
                            IF IsSome(disc) THEN XofYExpected(Unwrap(disc)) ELSE None
                   /\ md.track_number =
                            IF IsSome(track) THEN XofYExpected(Unwrap(track)) ELSE None

\* --------------------------------------------------- duration of FLAC files

\* floor(n / r) for a sample count n of up to 36 bits, given as limbs, and a
\* rate 0 < r < 2^23: long division over hi and the two bytes of lo
FloorDiv(n, r) ==
    LET q1 == n.hi \div r
        t2 == (n.hi % r) * 256 + (n.lo \div 256)
        t3 == (t2 % r) * 256 + (n.lo % 256)
    IN  [hi |-> q1, lo |-> (t2 \div r) * 256 + (t3 \div r)]

\* C16: in a FLAC read the duration is floor(n / r) for the total sample count n
\* and the sample rate r > 0 of the stream-information block, over the whole
\* range of n, and unset when the file has no such block.
C16_FlacDurationIsFloorOfSamplesByRate ==
    \A i \in 1..Len(calls) :
        LET c == calls[i]
            f == file_at(c.path)
        IN  (c.path.ext = "flac" /\ f.decode = "ok" /\ IsSome(f.data.vorbis)) =>
                IF ~IsSome(f.data.streaminfo)
                THEN IsSome(c.ret) /\ Unwrap(c.ret).duration = None
                ELSE LET s == Unwrap(f.data.streaminfo) IN
                     s.sample_rate > 0 =>
                        /\ IsSome(c.ret)
                        /\ Unwrap(c.ret).duration =
                                Some(FloorDiv(s.total_samples, s.sample_rate))

\* ----------------------------------- numeric fields of the comment-list readers

\* the number a decimal text denotes for the field of K, errors turned into
\* "unset": TRACKNUMBER and DISCNUMBER are unsigned, DATE is signed (the numbers
\* drawn have at most nine digits)
LenientNumber(K, v) ==
    IF NotANumber(v) THEN None
    ELSE LET neg == v[1] = "-"
             body == IF v[1] \in {"+", "-"} THEN Tail(v) ELSE v
         IN  IF K = K_DATE THEN Some(IF neg THEN 0 - RunValue(body) ELSE RunValue(body))
             ELSE IF neg THEN None ELSE Some(U32(RunValue(body)))

\* C17: after a comment-list read, track_number, disc_number and year are the
\* lenient parse of the last entry matching TRACKNUMBER, DISCNUMBER and DATE in
\* any spelling (unset without such an entry), so that a later entry that does
\* not parse unsets what an earlier one had set; the Ogg/Vorbis and the Opus
\* reader return the same value for the same comment list.
C17_NumericFieldsTakeLastEntry ==
    /\ \A i \in 1..Len(calls) :
            IsCommentCall(calls[i]) =>
                /\ IsSome(calls[i].ret)
                /\ \A K \in NumericKeys :
                        LET vs == ValuesOf(CommentsOf(calls[i]), K) IN
                        NumericField(Unwrap(calls[i].ret), K) =
                            IF vs = <<>> THEN None ELSE LenientNumber(K, vs[Len(vs)])
    /\ \A i, j \in 1..Len(calls) :
            (/\ IsCommentCall(calls[i]) /\ IsCommentCall(calls[j])
             /\ CommentsOf(calls[i]) = CommentsOf(calls[j]))
                => calls[i].ret = calls[j].ret

\* a track number that parses followed by one that does not, read by both
\* readers: the track is unset
C17_Witness ==
    /\ Len(calls) = 2
    /\ calls[1].path.ext = "ogg" /\ calls[2].path.ext = "opus"
    /\ CommentsOf(calls[1]) =
            << <<K_TRACKNUMBER, <<"7">> >>,
               <<<<"t","r","a","c","k","n","u","m","b","e","r">>, <<"x">> >> >>
    /\ IsSome(calls[1].ret) /\ IsSome(calls[2].ret)
    /\ Unwrap(calls[1].ret).track_number = None
    /\ Unwrap(calls[2].ret).track_number = None

\* ------------------------------------------------------- byte-range responses

\* C18: for every requested range and every known file length, 0 included,
\* whenever truncate_range returns Some((from, to)) then from <= to and
\* to < file_length, nothing underflows on the way, and the content length
\* to - from + 1 of the response is between 1 and file_length.
C18_TruncatedRangeIsWithinFile ==
    IsSome(served) =>
        LET s == Unwrap(served) IN
        /\ s.response.kind # "Panic"
        /\ IsSome(s.truncated) =>
                LET from == Unwrap(s.truncated)[1]
                    to == Unwrap(s.truncated)[2]
                    len == Unwrap(s.file_length)
                IN  /\ u64_le(from, to)
                    /\ u64_lt(to, len)
                    /\ s.response.status = "PartialContent"
                    /\ u64_le(U64(1), Unwrap(s.response.content_length))
                    /\ u64_le(Unwrap(s.response.content_length), len)

====
